---------------------------- MODULE Spec2Model ----------------------------
(***************************************************************************)
(* compare_to_shortform.py: a script that prints a fixed comparison report *)
(* to standard output.  The model runs NumRuns independent invocations of  *)
(* the script, one statement per step, interleaved arbitrarily.            *)
(*                                                                         *)
(* A Python str is a TLA+ string, one character per code point.  The three *)
(* non-ASCII characters of the script are written with ASCII characters    *)
(* that occur nowhere else in it:                                          *)
(*     "@" for U+1F4DA (books),   "^" for U+2713 (check mark),             *)
(*     "~" for U+274C (cross mark).                                        *)
(***************************************************************************)
EXTENDS Naturals, Sequences, FiniteSets

(* number of invocations of the script that run side by side *)
NumRuns == 2

Runs == 1..NumRuns

(***************************************************************************)
(* String operations used by the script                                    *)
(***************************************************************************)

(* c * n: the string c repeated n times (built by halving n) *)
RECURSIVE Rep(_, _)
Rep(c, n) ==
  IF n = 0 THEN ""
  ELSE LET h == Rep(c, n \div 2)
       IN  IF n % 2 = 0 THEN h \o h ELSE h \o h \o c

(* the indentation of the f-string is one space short *)
FmtIndent_oneSpace(x) == " " \o x

(* f"  {x}": two spaces, then x *)
FmtIndent(x) == "  " \o x

(* The lines that the text t, which ends with a newline, puts on stdout:   *)
(* t cut after every newline.                                              *)
RECURSIVE SplitLines(_)
SplitLines(t) ==
  IF t = "" THEN <<>>
  ELSE LET k == CHOOSE i \in 1..Len(t) :
                  /\ SubSeq(t, i, i) = "\n"
                  /\ \A j \in 1..(i - 1) : SubSeq(t, j, j) # "\n"
       IN  <<SubSeq(t, 1, k - 1)>> \o SplitLines(SubSeq(t, k + 1, Len(t)))

(* print(s) writes s and then the terminator end="\n" *)
PrintedLines(s) == SplitLines(s \o "\n")

(***************************************************************************)
(* The literals of the script                                              *)
(***************************************************************************)

(* line 6: the argument of print("=" * 80) *)
Arg_L6 == Rep("=", 80)

(* the title in another letter case *)
Arg_L7_lowerCase == "Shortform Summary Comparison Analysis"

(* line 7: the argument of print("SHORTFORM SUMMARY COMPARISON ANALYSIS") *)
Arg_L7 == "SHORTFORM SUMMARY COMPARISON ANALYSIS"

(* line 8: the argument of print("=" * 80) *)
Arg_L8 == Rep("=", 80)

(* line 10: the argument of print("\n@ ANALYZING REAL SHORTFORM SUMMARIES...") *)
Arg_L10 == "\n@ ANALYZING REAL SHORTFORM SUMMARIES..."

(* lines 12-43: the dict literal bound to shortform_features, as the      *)
(* sequence of its items in insertion order                               *)
FeatureCatalog ==
  <<
    [key |-> "STRUCTURE",
     features |-> <<
        "^ Cover page with book title, author, and 2-3 paragraph introduction",
        "^ '1-Page Summary' section with condensed overview",
        "^ 8-12 main content sections organized by themes",
        "^ Each section has multiple subsections with bold headers",
        "^ Conclusion or final thoughts section"
     >>],
    [key |-> "SHORTFORM NOTES (CRITICAL!)",
     features |-> <<
        "^ Gray background boxes with '(Shortform note: ...)' format",
        "^ COMPARATIVE ANALYSIS citing 5-10 OTHER books by name",
        "^ Author credentials and biographical context",
        "^ Scientific/philosophical foundations explained",
        "^ Critical analysis challenging the book's claims",
        "^ Practical implementation strategies from other sources",
        "^ Appears every 2-4 paragraphs throughout the summary"
     >>],
    [key |-> "CITATIONS & RESEARCH",
     features |-> <<
        "^ Specific book titles in italics (e.g., *Thinking, Fast and Slow*)",
        "^ Author names with credentials (e.g., 'Daniel Kahneman, Nobel laureate')",
        "^ Concrete examples from cited sources",
        "^ Cross-references between different books",
        "^ 8-12 total external sources minimum"
     >>],
    [key |-> "VISUAL DESIGN",
     features |-> <<
        "^ Yellow/gold horizontal bars separating major sections",
        "^ Light gray background boxes for Shortform notes",
        "^ Professional typography with clear hierarchy",
        "^ Blue hyperlinks for cross-references",
        "^ Logo watermark on pages"
     >>]
  >>

(* line 45: the argument of print("\n~ WHAT'S MISSING FROM CURRENT IMPLEMENTATION:") *)
Arg_L45 == "\n~ WHAT'S MISSING FROM CURRENT IMPLEMENTATION:"

(* line 46: the argument of print("-" * 80) *)
Arg_L46 == Rep("-", 80)

(* lines 48-57: the list literal bound to missing *)
MissingItemList ==
  <<
    "1. NO GRAY BACKGROUND BOXES - Shortform notes must be in visible gray boxes",
    "2. NO COMPARATIVE ANALYSIS - Missing citations to other books",
    "3. NO AUTHOR CREDENTIALS - Not explaining who the experts are",
    "4. TOO GENERIC - Reads like a basic summary, not deep research",
    "5. NO SUBSECTIONS - Missing the detailed chapter breakdowns",
    "6. INSUFFICIENT RESEARCH DEPTH - Need 8-12 external book citations minimum",
    "7. NO CRITICAL ANALYSIS - Missing counterarguments and limitations",
    "8. NO PRACTICAL IMPLEMENTATION - Missing actionable steps from other sources"
  >>

(* the repeat count is one short *)
Arg_L62_short == "\n" \o Rep("=", 79)

(* line 62: the argument of print("\n" + "=" * 80) *)
Arg_L62 == "\n" \o Rep("=", 80)

(* line 63: the argument of print("REQUIRED FIXES:") *)
Arg_L63 == "REQUIRED FIXES:"

(* the separator under "REQUIRED FIXES:" uses the other rule character *)
Arg_L64_dashes == Rep("-", 80)

(* line 64: the argument of print("=" * 80) *)
Arg_L64 == Rep("=", 80)

(* lines 66-75: the list literal bound to fixes *)
FixList ==
  <<
    "1. UPDATE AI PROMPT: Force generation of 8-12 specific book citations",
    "2. UPDATE RENDERER: Add gray background boxes for all Shortform notes",
    "3. UPDATE PROMPT: Require author credentials for every citation",
    "4. UPDATE PROMPT: Mandate comparative analysis format",
    "5. UPDATE PROMPT: Require critical analysis and counterarguments",
    "6. UPDATE STRUCTURE: Generate 8-12 main sections with 2-4 subsections each",
    "7. UPDATE FREQUENCY: Insert Shortform note every 2-4 paragraphs",
    "8. UPDATE EXAMPLES: Provide actual Shortform note examples in the prompt"
  >>

(* line 80: the argument of print("\n" + "=" * 80) *)
Arg_L80 == "\n" \o Rep("=", 80)

(***************************************************************************)
(* State of the invocations                                                *)
(***************************************************************************)
VARIABLES
  pc,                  \* pc[r]: line of the statement run r executes next;
                       \* "exit" once the last statement has returned
  out,                 \* out[r]: the lines run r has written to its stdout
  bound,               \* bound[r]: the names among shortform_features, missing
                       \* and fixes that run r has bound to their literals
                       \* (each is assigned once and never mutated)
  item,                \* the loop variables; "" while not bound
  fix,
  it_missing,          \* number of entries the iterator of line 59 has handed out
  it_fixes,            \* number of entries the iterator of line 77 has handed out
  exc,                 \* "none", or the exception a failed write raised
  status,              \* "running" or "exited"
  exitcode             \* exit status of the process, meaningful once exited

vars == <<pc, out, bound, item, fix,
          it_missing, it_fixes, exc, status, exitcode>>

names == <<bound, item, fix, it_missing, it_fixes>>

Init ==
  /\ pc = [r \in Runs |-> "L6"]
  /\ out = [r \in Runs |-> <<>>]
  /\ bound = [r \in Runs |-> {}]
  /\ item = [r \in Runs |-> ""]
  /\ fix = [r \in Runs |-> ""]
  /\ it_missing = [r \in Runs |-> 0]
  /\ it_fixes = [r \in Runs |-> 0]
  /\ exc = [r \in Runs |-> "none"]
  /\ status = [r \in Runs |-> "running"]
  /\ exitcode = [r \in Runs |-> 0]

(* the value a global name has in run r *)
shortform_features(r) ==
  IF "shortform_features" \in bound[r] THEN FeatureCatalog ELSE <<>>

missing(r) == IF "missing" \in bound[r] THEN MissingItemList ELSE <<>>

fixes(r) == IF "fixes" \in bound[r] THEN FixList ELSE <<>>

At(r, l) == status[r] = "running" /\ pc[r] = l

Goto(r, l) == pc' = [pc EXCEPT ![r] = l]

(* every invocation appends to one buffer, that of the first *)
Write_shared(r, s) == out' = [out EXCEPT ![1] = @ \o PrintedLines(s)]

(* print(s) returned: s and the line terminator are on run r's stdout *)
Write(r, s) == out' = [out EXCEPT ![r] = @ \o PrintedLines(s)]

(* the exception is swallowed and the statement is tried again *)
Raise_retry(r) ==
  /\ exc' = [exc EXCEPT ![r] = "OSError"]
  /\ UNCHANGED <<pc, out, status, exitcode>>

(* print(s) raised: the write to stdout failed.  The module body has no    *)
(* try statement, so the exception leaves the script at the statement that *)
(* raised it and the interpreter exits with status 1.                      *)
Raise(r) ==
  /\ exc' = [exc EXCEPT ![r] = "OSError"]
  /\ status' = [status EXCEPT ![r] = "exited"]
  /\ exitcode' = [exitcode EXCEPT ![r] = 1]
  /\ UNCHANGED <<pc, out>>

(* a print statement: the write fails, or it writes and falls through to  *)
(* the next statement                                                      *)
print(r, s, next) ==
  \/ Raise(r)
  \/ /\ Goto(r, next)
     /\ Write(r, s)
     /\ UNCHANGED <<exc, status, exitcode>>

(***************************************************************************)
(* The statements of the module body, in source order                      *)
(***************************************************************************)
Print_L6(r) == At(r, "L6") /\ print(r, Arg_L6, "L7") /\ UNCHANGED names

Print_L7(r) == At(r, "L7") /\ print(r, Arg_L7, "L8") /\ UNCHANGED names

Print_L8(r) == At(r, "L8") /\ print(r, Arg_L8, "L10") /\ UNCHANGED names

Print_L10(r) == At(r, "L10") /\ print(r, Arg_L10, "L12") /\ UNCHANGED names

(* shortform_features = {...}: the dict is bound and not used again *)
Assign_L12(r) ==
  /\ At(r, "L12")
  /\ bound' = [bound EXCEPT ![r] = @ \cup {"shortform_features"}]
  /\ Goto(r, "L45")
  /\ UNCHANGED <<out, item, fix, it_missing, it_fixes, exc, status, exitcode>>

Print_L45(r) == At(r, "L45") /\ print(r, Arg_L45, "L46") /\ UNCHANGED names

Print_L46(r) == At(r, "L46") /\ print(r, Arg_L46, "L48") /\ UNCHANGED names

Assign_L48(r) ==
  /\ At(r, "L48")
  /\ bound' = [bound EXCEPT ![r] = @ \cup {"missing"}]
  /\ Goto(r, "L59")
  /\ UNCHANGED <<out, item, fix, it_missing, it_fixes, exc, status, exitcode>>

(* the loop is left past the "REQUIRED FIXES:" block, which is not printed *)
For_L59_skipBlock(r) ==
  /\ At(r, "L59")
  /\ IF it_missing[r] < Len(missing(r))
       THEN /\ item' = [item EXCEPT ![r] = missing(r)[it_missing[r] + 1]]
            /\ it_missing' = [it_missing EXCEPT ![r] = @ + 1]
            /\ Goto(r, "L60")
       ELSE /\ Goto(r, "L66")
            /\ UNCHANGED <<item, it_missing>>
  /\ UNCHANGED <<out, bound, fix, it_fixes, exc, status, exitcode>>

(* for item in missing: bind the next entry and enter the body, or leave   *)
(* the loop when the iterator is exhausted                                 *)
For_L59(r) ==
  /\ At(r, "L59")
  /\ IF it_missing[r] < Len(missing(r))
       THEN /\ item' = [item EXCEPT ![r] = missing(r)[it_missing[r] + 1]]
            /\ it_missing' = [it_missing EXCEPT ![r] = @ + 1]
            /\ Goto(r, "L60")
       ELSE /\ Goto(r, "L62")
            /\ UNCHANGED <<item, it_missing>>
  /\ UNCHANGED <<out, bound, fix, it_fixes, exc, status, exitcode>>

Print_L60(r) ==
  At(r, "L60") /\ print(r, FmtIndent(item[r]), "L59") /\ UNCHANGED names

Print_L62(r) == At(r, "L62") /\ print(r, Arg_L62, "L63") /\ UNCHANGED names

Print_L63(r) == At(r, "L63") /\ print(r, Arg_L63, "L64") /\ UNCHANGED names

Print_L64(r) == At(r, "L64") /\ print(r, Arg_L64, "L66") /\ UNCHANGED names

Assign_L66(r) ==
  /\ At(r, "L66")
  /\ bound' = [bound EXCEPT ![r] = @ \cup {"fixes"}]
  /\ Goto(r, "L77")
  /\ UNCHANGED <<out, item, fix, it_missing, it_fixes, exc, status, exitcode>>

(* the loop stops one entry early *)
For_L77_offByOne(r) ==
  /\ At(r, "L77")
  /\ IF it_fixes[r] + 1 < Len(fixes(r))
       THEN /\ fix' = [fix EXCEPT ![r] = fixes(r)[it_fixes[r] + 1]]
            /\ it_fixes' = [it_fixes EXCEPT ![r] = @ + 1]
            /\ Goto(r, "L78")
       ELSE /\ Goto(r, "L80")
            /\ UNCHANGED <<fix, it_fixes>>
  /\ UNCHANGED <<out, bound, item, it_missing, exc, status, exitcode>>

(* for fix in fixes *)
For_L77(r) ==
  /\ At(r, "L77")
  /\ IF it_fixes[r] < Len(fixes(r))
       THEN /\ fix' = [fix EXCEPT ![r] = fixes(r)[it_fixes[r] + 1]]
            /\ it_fixes' = [it_fixes EXCEPT ![r] = @ + 1]
            /\ Goto(r, "L78")
       ELSE /\ Goto(r, "L80")
            /\ UNCHANGED <<fix, it_fixes>>
  /\ UNCHANGED <<out, bound, item, it_missing, exc, status, exitcode>>

Print_L78(r) ==
  At(r, "L78") /\ print(r, FmtIndent(fix[r]), "L77") /\ UNCHANGED names

Print_L80(r) == At(r, "L80") /\ print(r, Arg_L80, "exit") /\ UNCHANGED names

(* the script never gets past its last statement *)
Exit_hang(r) ==
  /\ At(r, "exit")
  /\ UNCHANGED vars

(* the end of the module body is reached: the interpreter exits with 0 *)
Exit(r) ==
  /\ At(r, "exit")
  /\ status' = [status EXCEPT ![r] = "exited"]
  /\ exitcode' = [exitcode EXCEPT ![r] = 0]
  /\ UNCHANGED <<pc, out, exc>>
  /\ UNCHANGED names

Step(r) ==
  \/ Print_L6(r) \/ Print_L7(r) \/ Print_L8(r) \/ Print_L10(r)
  \/ Assign_L12(r)
  \/ Print_L45(r) \/ Print_L46(r)
  \/ Assign_L48(r) \/ For_L59(r) \/ Print_L60(r)
  \/ Print_L62(r) \/ Print_L63(r) \/ Print_L64(r)
  \/ Assign_L66(r) \/ For_L77(r) \/ Print_L78(r)
  \/ Print_L80(r)
  \/ Exit(r)

Next == \E r \in Runs : Step(r)

Spec == Init /\ [][Next]_vars

(* the system keeps executing: while some invocation has a statement left, *)
(* some invocation executes one                                            *)
FairSpec == Spec /\ WF_vars(Next)

TypeOK ==
  /\ pc \in [Runs -> {"L6", "L7", "L8", "L10", "L12", "L45", "L46", "L48",
                      "L59", "L60", "L62", "L63", "L64", "L66", "L77",
                      "L78", "L80", "exit"}]
  /\ exc \in [Runs -> {"none", "OSError"}]
  /\ status \in [Runs -> {"running", "exited"}]
  /\ exitcode \in [Runs -> {0, 1}]
  /\ it_missing \in [Runs -> 0..Len(MissingItemList)]
  /\ it_fixes \in [Runs -> 0..Len(FixList)]
  /\ bound \in [Runs -> SUBSET {"shortform_features", "missing", "fixes"}]

(***************************************************************************)
(* Vocabulary of the properties                                            *)
(***************************************************************************)

(* run r ran to the end of the script *)
Completed(r) == status[r] = "exited" /\ exitcode[r] = 0

(* a write of run r failed *)
Failed(r) == exc[r] # "none"

(* l is not empty and has no character other than c: its first character  *)
(* is c and every character equals the one after it                        *)
OnlyOf(l, c) ==
  /\ Len(l) > 0
  /\ SubSeq(l, 1, 1) = c
  /\ SubSeq(l, 1, Len(l) - 1) = SubSeq(l, 2, Len(l))

(* l is a separator line: exactly 80 characters, all of them c *)
IsRule(l, c) == Len(l) = 80 /\ OnlyOf(l, c)

StartsWith(l, p) == Len(l) >= Len(p) /\ SubSeq(l, 1, Len(p)) = p

Contains(l, p) ==
  \E i \in 1..(Len(l) + 1 - Len(p)) :
    SubSeq(l, i, i + Len(p) - 1) = p

IsPrefix(a, b) == Len(a) <= Len(b) /\ SubSeq(b, 1, Len(a)) = a

(* the positions of the lines of L equal to x *)
LinesEqual(L, x) == {i \in 1..Len(L) : L[i] = x}

Indent == "  "

IsIndented(l) == StartsWith(l, Indent)

Digits == <<"1", "2", "3", "4", "5", "6", "7", "8", "9">>

TitleText == "SHORTFORM SUMMARY COMPARISON ANALYSIS"

ReqFixesText == "REQUIRED FIXES:"

(* the header lines, without the blank line printed in front of them *)
AnalysisHeader == Tail(Arg_L10)

MissingHeader == Tail(Arg_L45)

(* the line an entry is expected on: two spaces, then the entry *)
MissingLineSet == {Indent \o MissingItemList[k] : k \in 1..Len(MissingItemList)}

FixLineSet == {Indent \o FixList[k] : k \in 1..Len(FixList)}

(* position of the first "REQUIRED FIXES:" line of L, Len(L) + 1 if none *)
ReqFixesAt(L) ==
  LET Q == LinesEqual(L, ReqFixesText)
  IN  IF Q = {} THEN Len(L) + 1 ELSE CHOOSE q \in Q : \A p \in Q : q <= p

(***************************************************************************)
(* C1: a completed run has written, between the feature-analysis header   *)
(* and the missing-items header, every category name of                    *)
(* shortform_features as a header line, in insertion order, each followed  *)
(* by its feature strings one per line; the number of category header      *)
(* lines is the number of keys, 4.  (The script binds the dict and never   *)
(* reads it, so this does not hold of the script.)                         *)
(***************************************************************************)
C1_CatalogPrinted ==
  \A r \in Runs :
    Completed(r) =>
      LET L == out[r]
          D == shortform_features(r)
          a == CHOOSE i \in LinesEqual(L, AnalysisHeader) : TRUE
          m == CHOOSE i \in LinesEqual(L, MissingHeader) : TRUE
          IsCategoryHeader(i) == \E c \in 1..Len(D) : Contains(L[i], D[c].key)
          H == {i \in (a + 1)..(m - 1) : IsCategoryHeader(i)}
      IN  /\ Len(D) = 4
          /\ Cardinality(H) = Len(D)
          /\ \A c \in 1..Len(D) :
               \E i \in H :
                 /\ Contains(L[i], D[c].key)
                 /\ \A f \in 1..Len(D[c].features) :
                      i + f < m /\ Contains(L[i + f], D[c].features[f])
          /\ \A c, d \in 1..Len(D) :
               c < d =>
                 \A i, j \in H :
                   Contains(L[i], D[c].key) /\ Contains(L[j], D[d].key)
                     => i < j

(***************************************************************************)
(* C2: the sections of the report come in a fixed order.  At any moment no *)
(* missing-item line follows the "REQUIRED FIXES:" line and no fix line    *)
(* precedes it; the output of a completed run is the title block, the      *)
(* feature-analysis header, the missing-items header with the 80-character *)
(* "-" separator right after it, all entries of MissingItemList, the       *)
(* "=" / "REQUIRED FIXES:" / "=" block, all entries of FixList, and as its *)
(* very last line an 80-character "=" separator.                           *)
(***************************************************************************)
C2_SectionOrder ==
  \A r \in Runs :
    LET L == out[r]
        n == Len(L)
        q == ReqFixesAt(L)
    IN  /\ \A i \in 1..n : L[i] \in MissingLineSet => i < q
        /\ \A i \in 1..n : L[i] \in FixLineSet => q < i
        /\ Completed(r) =>
             /\ Cardinality(LinesEqual(L, AnalysisHeader)) = 1
             /\ Cardinality(LinesEqual(L, MissingHeader)) = 1
             /\ Cardinality(LinesEqual(L, ReqFixesText)) = 1
             /\ LET a == CHOOSE i \in LinesEqual(L, AnalysisHeader) : TRUE
                    m == CHOOSE i \in LinesEqual(L, MissingHeader) : TRUE
                IN  /\ IsRule(L[1], "=") /\ L[2] = TitleText /\ IsRule(L[3], "=")
                    /\ 3 < a /\ a < m /\ m + 1 < q - 1
                    /\ IsRule(L[m + 1], "-")
                    /\ \A x \in MissingLineSet :
                         \E i \in (m + 2)..(q - 2) : L[i] = x
                    /\ \A i \in (m + 2)..(q - 2) :
                         L[i] \in MissingLineSet \/ L[i] = ""
                    /\ IsRule(L[q - 1], "=") /\ IsRule(L[q + 1], "=")
                    /\ \A x \in FixLineSet :
                         \E i \in (q + 2)..(n - 1) : L[i] = x
                    /\ \A i \in (q + 2)..(n - 1) :
                         L[i] \in FixLineSet \/ L[i] = ""
                    /\ IsRule(L[n], "=")

(* a run completed, both lists and the block between them on its output *)
C2_Witness ==
  \E r \in Runs :
    /\ Completed(r)
    /\ \E i, j, k \in 1..Len(out[r]) :
         /\ i < j /\ j < k
         /\ out[r][i] \in MissingLineSet
         /\ out[r][j] = ReqFixesText
         /\ out[r][k] \in FixLineSet

(***************************************************************************)
(* C3: the indented lines written ahead of the "REQUIRED FIXES:" line are  *)
(* the entries of MissingItemList in list order, each preceded by two      *)
(* spaces and each beginning with its ordinal "k."; a completed run has    *)
(* written exactly 8 of them.                                              *)
(***************************************************************************)
C3_MissingItemLines ==
  \A r \in Runs :
    LET L == out[r]
        M == SelectSeq(SubSeq(L, 1, ReqFixesAt(L) - 1), IsIndented)
    IN  /\ Len(M) <= 8
        /\ \A k \in 1..Len(M) :
             /\ M[k] = Indent \o MissingItemList[k]
             /\ StartsWith(MissingItemList[k], Digits[k] \o ".")
        /\ Completed(r) => Len(M) = 8

(* the missing-items loop of a completed run has printed its last entry *)
C3_Witness ==
  \E r \in Runs :
    /\ Completed(r)
    /\ it_missing[r] = Len(MissingItemList)
    /\ \E i \in 1..Len(out[r]) : out[r][i] = Indent \o MissingItemList[8]

(***************************************************************************)
(* C4: the indented lines written after the "REQUIRED FIXES:" line are the *)
(* entries of FixList in list order, each preceded by two spaces and each  *)
(* beginning with its ordinal "k."; a completed run has written exactly 8  *)
(* of them.                                                                *)
(***************************************************************************)
C4_FixLines ==
  \A r \in Runs :
    LET L == out[r]
        F == SelectSeq(SubSeq(L, ReqFixesAt(L) + 1, Len(L)), IsIndented)
    IN  /\ Len(F) <= 8
        /\ \A k \in 1..Len(F) :
             /\ F[k] = Indent \o FixList[k]
             /\ StartsWith(FixList[k], Digits[k] \o ".")
        /\ Completed(r) => Len(F) = 8

(* the fixes loop of a completed run has printed its last entry *)
C4_Witness ==
  \E r \in Runs :
    /\ Completed(r)
    /\ it_fixes[r] = Len(FixList)
    /\ \E i \in 1..Len(out[r]) : out[r][i] = Indent \o FixList[8]

(***************************************************************************)
(* C5: in the output of a completed run "REQUIRED FIXES:" occurs exactly   *)
(* once, as a line of its own, and the lines right before and right after  *)
(* it are separators of exactly 80 "=" characters.                         *)
(***************************************************************************)
C5_RequiredFixesOnce ==
  \A r \in Runs :
    Completed(r) =>
      LET L == out[r]
          Hits == {i \in 1..Len(L) : Contains(L[i], ReqFixesText)}
      IN  /\ Cardinality(Hits) = 1
          /\ \A q \in Hits :
               /\ L[q] = ReqFixesText
               /\ 1 < q /\ q < Len(L)
               /\ IsRule(L[q - 1], "=")
               /\ IsRule(L[q + 1], "=")

(* a completed run whose output has the "REQUIRED FIXES:" line *)
C5_Witness ==
  \E r \in Runs : Completed(r) /\ LinesEqual(out[r], ReqFixesText) # {}

(***************************************************************************)
(* C6: the first three lines of the output of a run are a line of exactly  *)
(* 80 "=" characters, the line SHORTFORM SUMMARY COMPARISON ANALYSIS and   *)
(* another line of exactly 80 "=" characters.                              *)
(***************************************************************************)
C6_TitleBlock ==
  \A r \in Runs :
    LET L == out[r]
    IN  /\ Len(L) >= 1 => IsRule(L[1], "=")
        /\ Len(L) >= 2 => L[2] = TitleText
        /\ Len(L) >= 3 => IsRule(L[3], "=")
        /\ Completed(r) => Len(L) >= 3

(* a run has just written the third line of its output *)
C6_Witness == \E r \in Runs : pc[r] = "L10" /\ Len(out[r]) = 3

(***************************************************************************)
(* C7: at every moment every output line made only of "=" characters or    *)
(* only of "-" characters is exactly 80 characters long; a completed run   *)
(* has written five "=" separators and one "-" separator.                  *)
(***************************************************************************)
C7_SeparatorWidth ==
  \A r \in Runs :
    LET L == out[r]
    IN  /\ \A i \in 1..Len(L) :
             OnlyOf(L[i], "=") \/ OnlyOf(L[i], "-") => Len(L[i]) = 80
        /\ Completed(r) =>
             /\ Cardinality({i \in 1..Len(L) : OnlyOf(L[i], "=")}) = 5
             /\ Cardinality({i \in 1..Len(L) : OnlyOf(L[i], "-")}) = 1

(* a run has written the "-" separator and the "=" separator of line 62 *)
C7_Witness ==
  \E r \in Runs :
    /\ pc[r] = "L63"
    /\ \E i \in 1..Len(out[r]) : OnlyOf(out[r][i], "-")
    /\ OnlyOf(out[r][Len(out[r])], "=")

(***************************************************************************)
(* C8: runs are independent and deterministic.  A step of one run changes  *)
(* nothing of any other run; at every moment, of any two runs the output   *)
(* of one is a prefix of the output of the other, however their steps are  *)
(* interleaved; any two completed runs have identical outputs.             *)
(***************************************************************************)
RunState(r) ==
  <<pc[r], out[r], bound[r], item[r], fix[r], it_missing[r], it_fixes[r],
    exc[r], status[r], exitcode[r]>>

C8_SameOutput ==
  \A r1, r2 \in Runs :
    /\ IsPrefix(out[r1], out[r2]) \/ IsPrefix(out[r2], out[r1])
    /\ Completed(r1) /\ Completed(r2) => out[r1] = out[r2]

C8_NoSharing ==
  \A r1, r2 \in Runs :
    r1 # r2 /\ RunState(r1)' # RunState(r1) => RunState(r2)' = RunState(r2)

C8_Independent == []C8_SameOutput /\ [][C8_NoSharing]_vars

(* two different runs have both completed, each with its report written *)
C8_Witness ==
  \E r1, r2 \in Runs :
    /\ r1 # r2
    /\ Completed(r1) /\ Completed(r2)
    /\ Len(out[r1]) > 0 /\ Len(out[r2]) > 0

(***************************************************************************)
(* C9: a failed write stops the run at the statement that failed, with a   *)
(* non-zero exit status: that statement and the later ones write nothing,  *)
(* the run does not go on or retry and never completes; and a non-zero     *)
(* exit status occurs only when a write failed.                            *)
(***************************************************************************)
C9_FailedState ==
  \A r \in Runs :
    /\ Failed(r) => status[r] = "exited" /\ exitcode[r] # 0 /\ pc[r] # "exit"
    /\ status[r] = "exited" /\ exitcode[r] # 0 => Failed(r)

C9_FailStep ==
  \A r \in Runs :
    /\ Failed(r) => RunState(r)' = RunState(r)
    /\ ~Failed(r) /\ Failed(r)' =>
         /\ pc[r]' = pc[r]
         /\ out[r]' = out[r]
         /\ status[r]' = "exited"
         /\ exitcode[r]' # 0

C9_WriteFailureIsFatal == []C9_FailedState /\ [][C9_FailStep]_vars

(* a write inside the missing-items loop failed after some lines were out, *)
(* while another run went on past that point                               *)
C9_Witness ==
  \E r1, r2 \in Runs :
    /\ Failed(r1) /\ pc[r1] = "L60" /\ it_missing[r1] = 3
    /\ ~Failed(r2) /\ pc[r2] = "L63"

(***************************************************************************)
(* C10: a run whose writes all succeed terminates.  Every step moves the   *)
(* run forward (no statement is executed twice with the same loop          *)
(* position), each loop body runs once per list entry, 8 times, the run    *)
(* eventually exits with code 0, and an exited run writes nothing more.    *)
(***************************************************************************)

(* statements in execution order; a loop body ranks below its loop header  *)
(* because the header is what runs after the body                          *)
StmtOrder ==
  <<"L6", "L7", "L8", "L10", "L12", "L45", "L46", "L48", "L60", "L59",
    "L62", "L63", "L64", "L66", "L78", "L77", "L80", "exit">>

StmtRank(l) == CHOOSE i \in 1..Len(StmtOrder) : StmtOrder[i] = l

Progress(r) ==
  (Len(StmtOrder) + 1) * (it_missing[r] + it_fixes[r]) + StmtRank(pc[r])

C10_Forward ==
  \A r \in Runs :
    /\ status[r] = "running" /\ status[r]' = "running"
         /\ RunState(r)' # RunState(r) => Progress(r)' > Progress(r)
    /\ status[r] = "exited" => RunState(r)' = RunState(r)
    /\ it_missing[r]' \in {it_missing[r], it_missing[r] + 1}
    /\ it_fixes[r]' \in {it_fixes[r], it_fixes[r] + 1}
    /\ it_missing[r]' # it_missing[r] => pc[r]' = "L60"
    /\ it_fixes[r]' # it_fixes[r] => pc[r]' = "L78"

C10_LoopCounts ==
  \A r \in Runs :
    /\ pc[r] \in {"L62", "L63", "L64", "L66", "L77", "L78", "L80", "exit"}
         => it_missing[r] = 8
    /\ pc[r] = "exit" => it_fixes[r] = 8
    /\ Completed(r) => pc[r] = "exit"

C10_Terminates ==
  /\ <>(\A r \in Runs : Completed(r) \/ Failed(r))
  /\ [][C10_Forward]_vars
  /\ []C10_LoopCounts

(* a run exited with code 0 after both loops handed out all their entries *)
C10_Witness ==
  \E r \in Runs :
    /\ Completed(r) /\ ~Failed(r)
    /\ it_missing[r] = 8 /\ it_fixes[r] = 8
    /\ pc[r] = "exit"

=============================================================================
